---------------------------- MODULE Spec2Model ----------------------------
(***************************************************************************)
(* A model of the CHIP-8 interpreter of src/src/emulator/core.rs (struct   *)
(* Chip8) with its screen (src/src/emulator/state.rs).  The host calls     *)
(* tick (one fetch-decode-execute cycle) and tick_timers; the ROM loader   *)
(* and the key setter are those of src/chip8_engine/src/emulator.rs.       *)
(*                                                                         *)
(* A Rust panic (index out of bounds, unimplemented!(), an overflow in a   *)
(* build with overflow checks) ends the process: it is recorded in the     *)
(* variable panic and no call is made afterwards.  Whether arithmetic      *)
(* overflow panics (debug profile) or wraps (release profile) is fixed by  *)
(* the build: overflow_checks is chosen in Init and never changes.         *)
(***************************************************************************)
EXTENDS Integers, Sequences, FiniteSets, TLC

VARIABLES
    program_counter,  \* usize
    memory,           \* [u8; RAM_SIZE]
    v_regs,           \* [u8; NUM_V_REGS]
    i_reg,            \* u16
    stack,            \* [u16; STACK_SIZE]
    stack_pointer,    \* usize
    screen,           \* Screen.inner: [bool; SCREEN_WIDTH * SCREEN_HEIGHT]
    keys,             \* [bool; NUM_KEYS]
    delay_timer,      \* u8
    sound_timer,      \* u8
    finished,         \* the field _finished
    panic,            \* "none", or why the process panicked
    overflow_checks,  \* the build: TRUE panics on overflow, FALSE wraps
    phase,            \* "new" after construction, "loaded" after load_rom
    last,             \* the last call of the host: its kind, opcode, result, pre-state
    halted,           \* some tick has returned Finished
    calls,            \* history: the 2NNN calls not yet returned from
    saved,            \* history: the registers stored by the last FX55
    drawn             \* history: the last DXYN, and whether it repeated the one before

machine_vars == <<program_counter, memory, v_regs, i_reg, stack, stack_pointer,
                  screen, keys, delay_timer, sound_timer, finished>>

vars == <<program_counter, memory, v_regs, i_reg, stack, stack_pointer,
          screen, keys, delay_timer, sound_timer, finished, panic,
          overflow_checks, phase, last, halted, calls, saved, drawn>>

-----------------------------------------------------------------------------
(* Program constants *)

SCREEN_WIDTH == 64
SCREEN_HEIGHT == 32
RAM_SIZE == 4096
NUM_V_REGS == 16
STACK_SIZE == 16
NUM_KEYS == 16
START_ADDR == 512
FONTSET_SIZE == 80

\* The 80 font bytes (16 glyphs of 5 bytes).
FONTSET ==
    << 240, 144, 144, 144, 240,    32,  96,  32,  32, 112,
       240,  16, 240, 128, 240,   240,  16, 240,  16, 240,
       144, 144, 240,  16,  16,   240, 128, 240,  16, 240,
       240, 128, 240, 144, 240,   240,  16,  32,  64,  64,
       240, 144, 240, 144, 240,   240, 144, 240,  16, 240,
       240, 144, 240, 144, 144,   224, 144, 224, 144, 224,
       240, 128, 128, 128, 240,   224, 144, 144, 144, 224,
       240, 128, 240, 128, 240,   240, 128, 240, 128, 128 >>

-----------------------------------------------------------------------------
(* Fixed-width arithmetic *)

\* Bit k of v (bit 0 is the least significant).
Bit(v, k) == (v \div (2 ^ k)) % 2

\* u8 & u8
BitAnd(a, b) ==
    LET f[k \in 0..8] == IF k = 8 THEN 0
                         ELSE Bit(a, k) * Bit(b, k) * (2 ^ k) + f[k + 1]
    IN  f[0]

\* u8 | u8
BitOr(a, b) ==
    LET f[k \in 0..8] == IF k = 8 THEN 0
                         ELSE (IF Bit(a, k) + Bit(b, k) > 0 THEN 2 ^ k ELSE 0) + f[k + 1]
    IN  f[0]

\* u8 ^ u8
BitXor(a, b) ==
    LET f[k \in 0..8] == IF k = 8 THEN 0
                         ELSE ((Bit(a, k) + Bit(b, k)) % 2) * (2 ^ k) + f[k + 1]
    IN  f[0]

\* The four nibbles of an opcode, highest first.
nib1(op) == op \div 4096
nib2(op) == (op \div 256) % 16
nib3(op) == (op \div 16) % 16
nib4(op) == op % 16

-----------------------------------------------------------------------------
(* The machine as a value: the fields of Chip8, the panic and the build *)

Machine ==
    [ program_counter |-> program_counter, memory |-> memory,
      v_regs |-> v_regs, i_reg |-> i_reg, stack |-> stack,
      stack_pointer |-> stack_pointer, screen |-> screen, keys |-> keys,
      delay_timer |-> delay_timer, sound_timer |-> sound_timer,
      finished |-> finished, panic |-> panic,
      overflow_checks |-> overflow_checks ]

\* Chip8::new followed by copy_fontset: the font goes to memory[..FONTSET_SIZE].
new ==
    [ program_counter |-> START_ADDR,
      memory |-> [a \in 0..(RAM_SIZE - 1) |->
                     IF a < FONTSET_SIZE THEN FONTSET[a + 1] ELSE 0],
      v_regs |-> [r \in 0..(NUM_V_REGS - 1) |-> 0],
      i_reg |-> 0,
      stack |-> [s \in 0..(STACK_SIZE - 1) |-> 0],
      stack_pointer |-> 0,
      screen |-> [p \in 0..(SCREEN_WIDTH * SCREEN_HEIGHT - 1) |-> FALSE],
      keys |-> [k \in 0..(NUM_KEYS - 1) |-> FALSE],
      delay_timer |-> 0,
      sound_timer |-> 0,
      finished |-> FALSE ]

\* A panic: the process stops where it is.
Panic(m, why) == [m EXCEPT !.panic = why]

\* u8 + u8 with the build's overflow behaviour: the wrapped sum, or -1 for a panic.
add_u8(m, a, b) ==
    IF a + b > 255 THEN (IF m.overflow_checks THEN -1 ELSE (a + b) % 256)
    ELSE a + b

\* u16 + u16 likewise.
add_u16(m, a, b) ==
    IF a + b > 65535 THEN (IF m.overflow_checks THEN -1 ELSE (a + b) % 65536)
    ELSE a + b

get_reg(m, reg) == m.v_regs[reg]

set_reg(m, reg, val) == [m EXCEPT !.v_regs[reg] = val]

\* checked_pc_set: the machine after it; the Result is Err iff finished was set here.
checked_pc_set(m, val) ==
    IF val > RAM_SIZE - 2
    THEN [m EXCEPT !.program_counter = val, !.finished = TRUE]
    ELSE [m EXCEPT !.program_counter = val]

\* A bound test that lets the last byte of memory pass.
pc_is_err_past_memory(pc) == pc > RAM_SIZE - 1

\* The Result of the checked_pc_set that left program counter pc.
pc_is_err(pc) == pc > RAM_SIZE - 2

checked_pc_increment(m, val) == checked_pc_set(m, m.program_counter + val)

\* A value above every address, standing for a usize wrapped below zero.
USIZE_WRAPPED == 1073741824

checked_pc_decrement(m, val) ==
    IF m.program_counter < val
    THEN (IF m.overflow_checks THEN Panic(m, "overflow")
          ELSE checked_pc_set(m, USIZE_WRAPPED))
    ELSE checked_pc_set(m, m.program_counter - val)

incr_reg(m, reg, val) ==
    LET sum == add_u8(m, get_reg(m, reg), val)
    IN  IF sum < 0 THEN Panic(m, "overflow") ELSE set_reg(m, reg, sum)

stack_push(m, val) ==
    IF m.stack_pointer >= STACK_SIZE THEN Panic(m, "stack index out of bounds")
    ELSE [m EXCEPT !.stack[m.stack_pointer] = val,
                   !.stack_pointer = m.stack_pointer + 1]

\* stack_pop: the machine after it; the value popped is stack[stack_pointer] then.
stack_pop(m) ==
    IF m.stack_pointer = 0
    THEN (IF m.overflow_checks THEN Panic(m, "overflow")
          ELSE Panic(m, "stack index out of bounds"))
    ELSE [m EXCEPT !.stack_pointer = m.stack_pointer - 1]

\* op_skip_if that skips one byte.
op_skip_if_one_byte(m, v_reg, val, eq) ==
    IF eq # (m.v_regs[v_reg] # val)
    THEN [m EXCEPT !.program_counter = m.program_counter + 1]
    ELSE m

\* op_skip_if with the test the other way round.
op_skip_if_inverted(m, v_reg, val, eq) ==
    IF eq = (m.v_regs[v_reg] # val)
    THEN [m EXCEPT !.program_counter = m.program_counter + 2]
    ELSE m

op_skip_if(m, v_reg, val, eq) ==
    IF eq # (m.v_regs[v_reg] # val)
    THEN [m EXCEPT !.program_counter = m.program_counter + 2]
    ELSE m

-----------------------------------------------------------------------------
(* The screen (state.rs) *)

coordinate_to_index(x, y) ==
    (SCREEN_WIDTH * (x % SCREEN_WIDTH)) + (y % SCREEN_HEIGHT)

\* Screen::set_pixel, the value it returns: the cell already held val.
set_pixel_res(m, x, y, val) == m.screen[coordinate_to_index(x, y)] = val

\* Screen::set_pixel, the machine after it.
set_pixel(m, x, y, val) ==
    IF coordinate_to_index(x, y) >= SCREEN_WIDTH * SCREEN_HEIGHT
    THEN Panic(m, "screen index out of bounds")
    ELSE [m EXCEPT !.screen[coordinate_to_index(x, y)] = val]

reset(m) == [m EXCEPT !.screen = [p \in 0..(SCREEN_WIDTH * SCREEN_HEIGHT - 1) |-> FALSE]]

-----------------------------------------------------------------------------
(* DXYN: the two loops of exec_op's draw arm *)

RECURSIVE draw_x_lines(_, _, _, _, _, _, _)
\* for x_line in x_line..8, within row y_line whose sprite byte is pixels
draw_x_lines(m, sprite_x, sprite_y, y_line, pixels, x_line, pixels_flipped) ==
    IF x_line = 8 THEN [m |-> m, pixels_flipped |-> pixels_flipped]
    ELSE
      LET current_pixel == BitAnd(pixels, 128 \div (2 ^ x_line)) # 0
          x == add_u8(m, sprite_x, x_line)
          y == add_u8(m, sprite_y, y_line)
      IN  IF x < 0 \/ y < 0
          THEN [m |-> Panic(m, "overflow"), pixels_flipped |-> pixels_flipped]
          ELSE IF set_pixel(m, x, y, current_pixel).panic # "none"
          THEN [m |-> set_pixel(m, x, y, current_pixel),
                pixels_flipped |-> pixels_flipped]
          ELSE draw_x_lines(set_pixel(m, x, y, current_pixel), sprite_x, sprite_y,
                            y_line, pixels, x_line + 1,
                            pixels_flipped \/ set_pixel_res(m, x, y, current_pixel))

RECURSIVE draw_y_lines(_, _, _, _, _, _)
\* for y_line in y_line..sprite_height
draw_y_lines(m, sprite_x, sprite_y, sprite_height, y_line, pixels_flipped) ==
    IF y_line = sprite_height THEN [m |-> m, pixels_flipped |-> pixels_flipped]
    ELSE
      LET addr == add_u16(m, m.i_reg, y_line)
      IN  IF addr < 0
          THEN [m |-> Panic(m, "overflow"), pixels_flipped |-> pixels_flipped]
          ELSE IF addr >= RAM_SIZE
          THEN [m |-> Panic(m, "memory index out of bounds"),
                pixels_flipped |-> pixels_flipped]
          ELSE
            LET row == draw_x_lines(m, sprite_x, sprite_y, y_line,
                                    m.memory[addr], 0, pixels_flipped)
            IN  IF row.m.panic # "none" THEN row
                ELSE draw_y_lines(row.m, sprite_x, sprite_y, sprite_height,
                                  y_line + 1, row.pixels_flipped)

op_draw(m, x_reg, y_reg, n) ==
    LET done == draw_y_lines(m, get_reg(m, x_reg), get_reg(m, y_reg), n, 0, FALSE)
    IN  IF done.m.panic # "none" THEN done.m
        ELSE set_reg(done.m, 15, IF done.pixels_flipped THEN 1 ELSE 0)

-----------------------------------------------------------------------------
(* exec_op: one arm per opcode pattern, in the order of the match *)

\* The arm of (0x0, 0x0, 0xE, 0xE): ret.
op_ret(m) ==
    LET popped == stack_pop(m)
    IN  IF popped.panic # "none" THEN popped
        ELSE checked_pc_set(popped, popped.stack[popped.stack_pointer])

\* op_call pushing the address of the next instruction instead of its own.
op_call_pushes_next(m, op) ==
    IF m.program_counter > 65535 THEN Panic(m, "expect")
    ELSE LET pushed == stack_push(m, m.program_counter + 2)
         IN  IF pushed.panic # "none" THEN pushed
             ELSE checked_pc_set(pushed, op % 4096)

\* The arm of (0x2, _, _, _): call.  The program counter fits a u16 or expect panics.
op_call(m, op) ==
    IF m.program_counter > 65535 THEN Panic(m, "expect")
    ELSE LET pushed == stack_push(m, m.program_counter)
         IN  IF pushed.panic # "none" THEN pushed
             ELSE checked_pc_set(pushed, op % 4096)

\* op_add writing the flag before the sum.
op_add_flag_first(m, X, Y) ==
    LET yval == get_reg(m, Y)
        xval == get_reg(m, X)
        new_x == (xval + yval) % 256
        carry == xval + yval > 255
    IN  set_reg(set_reg(m, 15, IF carry THEN 1 ELSE 0), X, new_x)

\* The arm of 8XY4.
op_add(m, X, Y) ==
    LET yval == get_reg(m, Y)
        xval == get_reg(m, X)
        new_x == (xval + yval) % 256
        carry == xval + yval > 255
    IN  set_reg(set_reg(m, X, new_x), 15, IF carry THEN 1 ELSE 0)

\* op_sub taking equal operands for a borrow.
op_sub_borrow_on_equal(m, X, Y) ==
    LET yval == get_reg(m, Y)
        xval == get_reg(m, X)
        new_x == (xval - yval) % 256
        borrow == xval <= yval
    IN  set_reg(set_reg(m, X, new_x), 15, IF borrow THEN 0 ELSE 1)

\* The arm of 8XY5.
op_sub(m, X, Y) ==
    LET yval == get_reg(m, Y)
        xval == get_reg(m, X)
        new_x == (xval - yval) % 256
        borrow == xval < yval
    IN  set_reg(set_reg(m, X, new_x), 15, IF borrow THEN 0 ELSE 1)

\* The arm of 8XY7.
op_subn(m, X, Y) ==
    LET yval == get_reg(m, Y)
        xval == get_reg(m, X)
        new_x == (yval - xval) % 256
        borrow == yval < xval
    IN  set_reg(set_reg(m, X, new_x), 15, IF borrow THEN 0 ELSE 1)

\* op_shr taking the flag from the shifted value.
op_shr_flag_of_result(m, X) ==
    LET value == get_reg(m, X)
    IN  set_reg(set_reg(m, X, value \div 2), 15, (value \div 2) % 2)

\* The arm of 8XY6.
op_shr(m, X) ==
    LET value == get_reg(m, X)
    IN  set_reg(set_reg(m, X, value \div 2), 15, value % 2)

\* The arm of 8XYE.
op_shl(m, X) ==
    LET value == get_reg(m, X)
    IN  set_reg(set_reg(m, X, (value * 2) % 256), 15, (value \div 128) % 2)

\* The arms of EX9E (want = TRUE) and EXA1 (want = FALSE).
op_skip_key(m, X, want) ==
    LET vx == get_reg(m, X)
    IN  IF vx >= NUM_KEYS THEN Panic(m, "keys index out of bounds")
        ELSE IF m.keys[vx] = want THEN checked_pc_increment(m, 2)
        ELSE m

\* The arm of FX0A: the first pressed key in ascending order, if any.
\* FX0A that does not rewind the program counter when no key is pressed.
op_wait_key_no_rewind(m, X) ==
    LET pressed == {id \in 0..(NUM_KEYS - 1) : m.keys[id]}
    IN  IF pressed # {}
        THEN set_reg(m, X, CHOOSE id \in pressed : \A other \in pressed : id <= other)
        ELSE m

op_wait_key(m, X) ==
    LET pressed == {id \in 0..(NUM_KEYS - 1) : m.keys[id]}
    IN  IF pressed # {}
        THEN set_reg(m, X, CHOOSE id \in pressed : \A other \in pressed : id <= other)
        ELSE checked_pc_decrement(m, 2)

\* FX1E that raises the flag when I leaves the 12-bit address space.
op_add_i_flags_overflow(m, X) ==
    LET sum == m.i_reg + get_reg(m, X)
    IN  set_reg([m EXCEPT !.i_reg = sum % 65536], 15, IF sum > 4095 THEN 1 ELSE 0)

\* The arm of FX1E: u16 wrapping_add of VX to I.
op_add_i(m, X) == [m EXCEPT !.i_reg = (m.i_reg + get_reg(m, X)) % 65536]

\* The arm of FX33: three writes, each to memory[i_reg].
op_bcd(m, X) ==
    LET vx == get_reg(m, X)
    IN  IF m.i_reg >= RAM_SIZE THEN Panic(m, "memory index out of bounds")
        ELSE [[[m EXCEPT !.memory[m.i_reg] = vx \div 100]
                  EXCEPT !.memory[m.i_reg] = (vx \div 10) % 10]
                  EXCEPT !.memory[m.i_reg] = vx % 10]

\* The arm of FX55: for idx in 0..=X, in ascending order, until an index is out of bounds.
op_store(m, X) ==
    LET written == [m EXCEPT !.memory =
                      [a \in 0..(RAM_SIZE - 1) |->
                         IF a >= m.i_reg /\ a <= m.i_reg + X
                         THEN m.v_regs[a - m.i_reg] ELSE m.memory[a]]]
    IN  IF m.i_reg + X >= RAM_SIZE
        THEN Panic(written, "memory index out of bounds")
        ELSE written

\* op_load with the range 0..X in place of 0..=X.
op_load_exclusive(m, X) ==
    LET read == [m EXCEPT !.v_regs =
                   [r \in 0..(NUM_V_REGS - 1) |->
                      IF r < X /\ m.i_reg + r < RAM_SIZE
                      THEN m.memory[m.i_reg + r] ELSE m.v_regs[r]]]
    IN  IF X > 0 /\ m.i_reg + X - 1 >= RAM_SIZE
        THEN Panic(read, "memory index out of bounds")
        ELSE read

\* The arm of FX65: for idx in 0..=X, in ascending order, until an index is out of bounds.
op_load(m, X) ==
    LET read == [m EXCEPT !.v_regs =
                   [r \in 0..(NUM_V_REGS - 1) |->
                      IF r <= X /\ m.i_reg + r < RAM_SIZE
                      THEN m.memory[m.i_reg + r] ELSE m.v_regs[r]]]
    IN  IF m.i_reg + X >= RAM_SIZE
        THEN Panic(read, "memory index out of bounds")
        ELSE read

\* exec_op; rnd is the byte rand::random() returns (read by CXNN only).
exec_op(m, op, rnd) ==
    LET n1 == nib1(op)
        X == nib2(op)
        Y == nib3(op)
        n4 == nib4(op)
        NN == op % 256
        NNN == op % 4096
    IN  CASE op = 0 -> m
          [] op = 224 -> reset(m)
          [] op = 238 -> op_ret(m)
          [] n1 = 1 -> checked_pc_set(m, NNN)
          [] n1 = 2 -> op_call(m, op)
          [] n1 = 3 -> op_skip_if(m, X, NN, TRUE)
          [] n1 = 4 -> op_skip_if(m, X, NN, FALSE)
          [] n1 = 5 /\ n4 = 0 -> op_skip_if(m, X, get_reg(m, Y), TRUE)
          [] n1 = 9 /\ n4 = 0 -> op_skip_if(m, X, get_reg(m, Y), FALSE)
          [] n1 = 6 -> set_reg(m, X, NN)
          [] n1 = 7 -> incr_reg(m, X, NN)
          [] n1 = 8 /\ n4 = 0 -> set_reg(m, X, get_reg(m, Y))
          [] n1 = 8 /\ n4 = 1 -> set_reg(m, X, BitOr(get_reg(m, Y), get_reg(m, X)))
          [] n1 = 8 /\ n4 = 2 -> set_reg(m, X, BitAnd(get_reg(m, Y), get_reg(m, X)))
          [] n1 = 8 /\ n4 = 3 -> set_reg(m, X, BitXor(get_reg(m, Y), get_reg(m, X)))
          [] n1 = 8 /\ n4 = 4 -> op_add(m, X, Y)
          [] n1 = 8 /\ n4 = 5 -> op_sub(m, X, Y)
          [] n1 = 8 /\ n4 = 7 -> op_subn(m, X, Y)
          [] n1 = 8 /\ n4 = 6 -> op_shr(m, X)
          [] n1 = 8 /\ n4 = 14 -> op_shl(m, X)
          [] n1 = 10 -> [m EXCEPT !.i_reg = NNN]
          [] n1 = 11 -> checked_pc_set(m, get_reg(m, 0) + NNN)
          [] n1 = 12 -> set_reg(m, X, BitAnd(rnd, NN))
          [] n1 = 13 -> op_draw(m, X, Y, n4)
          [] n1 = 14 /\ Y = 9 /\ n4 = 14 -> op_skip_key(m, X, TRUE)
          [] n1 = 14 /\ Y = 10 /\ n4 = 1 -> op_skip_key(m, X, FALSE)
          [] n1 = 15 /\ NN = 10 -> op_wait_key(m, X)
          [] n1 = 15 /\ NN = 7 -> set_reg(m, X, m.delay_timer)
          [] n1 = 15 /\ NN = 21 -> [m EXCEPT !.delay_timer = get_reg(m, X)]
          [] n1 = 15 /\ NN = 24 -> [m EXCEPT !.sound_timer = get_reg(m, X)]
          [] n1 = 15 /\ NN = 30 -> op_add_i(m, X)
          [] n1 = 15 /\ NN = 41 -> [m EXCEPT !.i_reg = get_reg(m, X) * 5]
          [] n1 = 15 /\ NN = 51 -> op_bcd(m, X)
          [] n1 = 15 /\ NN = 85 -> op_store(m, X)
          [] n1 = 15 /\ NN = 101 -> op_load(m, X)
          [] OTHER -> Panic(m, "not implemented")

\* Whether op matches an arm of exec_op other than the last.
is_known_op(op) ==
    LET n1 == nib1(op)
        Y == nib3(op)
        n4 == nib4(op)
        NN == op % 256
    IN  \/ op \in {0, 224, 238}
        \/ n1 \in {1, 2, 3, 4, 6, 7, 10, 11, 12, 13}
        \/ n1 \in {5, 9} /\ n4 = 0
        \/ n1 = 8 /\ n4 \in {0, 1, 2, 3, 4, 5, 6, 7, 14}
        \/ n1 = 14 /\ NN \in {158, 161}
        \/ n1 = 15 /\ NN \in {10, 7, 21, 24, 30, 41, 51, 85, 101}

-----------------------------------------------------------------------------
(* tick and tick_timers *)

\* tick without its first test: it fetches wherever the program counter is.
tick_unguarded(m, rnd) ==
    IF m.program_counter + 1 >= RAM_SIZE
    THEN [m |-> Panic(m, "memory index out of bounds"), ret |-> "None"]
    ELSE
      LET higher == m.memory[m.program_counter]
          lower == m.memory[m.program_counter + 1]
          op == higher * 256 + lower
          executed == exec_op(m, op, rnd)
          advanced == checked_pc_increment(executed, 2)
      IN  IF executed.panic # "none" THEN [m |-> executed, ret |-> "None"]
          ELSE [m |-> advanced,
                ret |-> IF pc_is_err(advanced.program_counter)
                        THEN "Finished" ELSE "Running"]

\* tick counting the timers down in every cycle, after the instruction.
tick_counts_timers(m, rnd) ==
    IF m.finished \/ m.program_counter > RAM_SIZE - 2
    THEN [m |-> m, ret |-> "Finished"]
    ELSE
      LET higher == m.memory[m.program_counter]
          lower == m.memory[m.program_counter + 1]
          op == higher * 256 + lower
          executed == exec_op(m, op, rnd)
          advanced == checked_pc_increment(executed, 2)
          counted == [advanced EXCEPT
                        !.delay_timer = IF @ > 0 THEN @ - 1 ELSE @,
                        !.sound_timer = IF @ > 0 THEN @ - 1 ELSE @]
      IN  IF executed.panic # "none" THEN [m |-> executed, ret |-> "None"]
          ELSE [m |-> counted,
                ret |-> IF pc_is_err(advanced.program_counter)
                        THEN "Finished" ELSE "Running"]

\* tick: the machine after it and the ProgramState it returns.
tick(m, rnd) ==
    IF m.finished \/ m.program_counter > RAM_SIZE - 2
    THEN [m |-> m, ret |-> "Finished"]
    ELSE
      LET higher == m.memory[m.program_counter]
          lower == m.memory[m.program_counter + 1]
          op == higher * 256 + lower
          executed == exec_op(m, op, rnd)
          advanced == checked_pc_increment(executed, 2)
      IN  IF executed.panic # "none" THEN [m |-> executed, ret |-> "None"]
          ELSE [m |-> advanced,
                ret |-> IF pc_is_err(advanced.program_counter)
                        THEN "Finished" ELSE "Running"]

\* The opcode tick fetches (-1 when it returns before fetching).
fetched(m) ==
    IF m.finished \/ m.program_counter > RAM_SIZE - 2 THEN -1
    ELSE m.memory[m.program_counter] * 256 + m.memory[m.program_counter + 1]

\* tick_timers: the machine after it and the TimerState it returns.
tick_timers(m) ==
    LET delayed == IF m.delay_timer > 0
                   THEN [m EXCEPT !.delay_timer = m.delay_timer - 1] ELSE m
    IN  IF delayed.sound_timer > 0
        THEN IF delayed.sound_timer = 1
             THEN [m |-> delayed, ret |-> "PlaySound"]
             ELSE [m |-> [delayed EXCEPT !.sound_timer = delayed.sound_timer - 1],
                   ret |-> "None"]
        ELSE [m |-> delayed, ret |-> "None"]

\* load_rom (load_mem at the start address): data is a sequence of bytes.
load_rom(m, data) ==
    [m EXCEPT !.memory =
       [a \in 0..(RAM_SIZE - 1) |->
          IF a >= START_ADDR /\ a < START_ADDR + Len(data)
          THEN data[a - START_ADDR + 1] ELSE m.memory[a]]]

\* register_key
register_key(m, key, is_pressed) == [m EXCEPT !.keys[key] = is_pressed]

-----------------------------------------------------------------------------
(* The ROMs the host loads: sequences of opcodes, stored big-endian *)

\* The bytes of a sequence of 16-bit words, high byte first.
rom_bytes(words) ==
    [i \in 1..(2 * Len(words)) |->
       IF i % 2 = 1 THEN words[(i + 1) \div 2] \div 256
       ELSE words[i \div 2] % 256]

\* Opcodes
JP(NNN) == 4096 + NNN
CALL(NNN) == 8192 + NNN
RET == 238
LD(X, NN) == 24576 + 256 * X + NN
ALU(X, Y, k) == 32768 + 256 * X + 16 * Y + k
LDI(NNN) == 40960 + NNN
DRW(X, Y, N) == 53248 + 256 * X + 16 * Y + N
FX(X, NN) == 61440 + 256 * X + NN

\* A jump to itself when stored as word number w of the ROM (tick adds 2 to a
\* jump's target): the program stays there.
HALT(w) == JP(START_ADDR + 2 * w - 2)

\* Bounds of the model
NumBytes == 3
MaxNest == 2

SampleBytes == <<255, 1, 0, 128, 100, 200, 16, 99>>
Bytes == {SampleBytes[i] : i \in 1..NumBytes}
KeyIds == {1, 5}

\* Programs that leave the instruction space, return or call too often, or
\* hold a word that is no instruction.
ControlRoms ==
    {<<JP(NNN)>> : NNN \in {4092, 4094, 4095}}
    \cup {<<LD(0, 255), 45056 + NNN>> : NNN \in {4090, 3839}}
    \cup {<<RET>>, <<CALL(START_ADDR - 2)>>}
    \cup {<<LD(0, b), w, HALT(2)>> :
             b \in Bytes, w \in {20497, 32776, 57344, 61695, 291}}

\* Calls nested n deep: word 0 calls f1, word 1 halts, fk is at word 2k and
\* calls f(k+1) before it returns; fn only returns.
NestRom(n) ==
    [w \in 1..(2 * n + 1 + 2) |->
       IF w = 1 THEN CALL(START_ADDR + 4 - 2)
       ELSE IF w = 2 THEN HALT(1)
       ELSE IF w % 2 = 1 /\ w < 2 * n + 1 THEN CALL(START_ADDR + 2 * (w + 1) - 2)
       ELSE RET]

CallRoms ==
    {NestRom(n) : n \in 1..MaxNest}
    \cup {<<CALL(START_ADDR + 6 - 2), CALL(START_ADDR + 6 - 2), HALT(2), RET>>}
    \cup {<<CALL(4094 - 2)>>, <<CALL(4095)>>}

\* One arithmetic instruction, 8XYk, on chosen operands: X and Y distinct,
\* equal, and either or both the flag register.
RegPairs == {<<0, 1>>, <<1, 1>>, <<15, 1>>, <<1, 15>>, <<15, 15>>}

AluRom(xy, a, b, k) == <<LD(xy[1], a), LD(xy[2], b), ALU(xy[1], xy[2], k), HALT(3)>>

AddRoms ==
    {AluRom(xy, a, b, 4) : <<xy, a, b>> \in RegPairs \X Bytes \X Bytes}

SubRoms ==
    {AluRom(xy, a, b, k) : <<xy, a, b, k>> \in RegPairs \X Bytes \X Bytes \X {5, 7}}

\* One shift, 8XY6 or 8XYE, on operands whose low and high bits differ.
ShiftRoms ==
    {AluRom(xy, a, b, k) :
        <<xy, a, b, k>> \in RegPairs \X {1, 100, 128, 255} \X {0, 3} \X {6, 14}}

\* Both timers set from V0, then instructions of every other group: a timer
\* read, a clear, memory and register instructions, a draw, a call and its
\* return, skips, a wait for a key and a random byte.
TimerRoms ==
    {<<LD(0, d), FX(0, 21), LD(0, s), FX(0, 24), FX(1, 7), 224, LDI(768),
       ALU(1, 0, 4), FX(0, 30), FX(0, 51), FX(1, 85), FX(1, 101), DRW(2, 2, 1),
       CALL(START_ADDR + 40 - 2), 12288 + 1, 57758, FX(3, 10), 49407,
       HALT(18), 0, RET>> :
        <<d, s>> \in {0, 1, 2} \X {0, 1, 2}}

\* ANNN, then FX29 on a register holding a digit or a larger value.
FontRoms ==
    {<<LD(X, v), LDI(564), FX(X, 41), HALT(3)>> :
        <<X, v>> \in {0, 7} \X {0, 1, 10, 15, 16, 17, 255}}

\* A ROM that fills memory to its end: a jump to the word at address addr,
\* which holds op; every other word is 0000.
EndRom(addr, op) ==
    [w \in 1..((RAM_SIZE - START_ADDR) \div 2) |->
       IF w = 1 THEN JP(addr - 2)
       ELSE IF START_ADDR + 2 * (w - 1) = addr THEN op
       ELSE 0]

\* The four skips 3XNN, 4XNN, 5XY0 and 9XY0 on chosen operands, and at the
\* last two instruction addresses of memory.
SkipRoms ==
    {<<LD(xy[1], a), LD(xy[2], b), k * 4096 + 256 * xy[1] + (IF k \in {3, 4} THEN 1 ELSE 16 * xy[2]),
       HALT(3), HALT(4)>> :
        <<xy, a, b, k>> \in {<<0, 1>>, <<1, 1>>, <<15, 1>>} \X Bytes \X Bytes \X {3, 4, 5, 9}}
    \cup {EndRom(addr, op) :
             <<addr, op>> \in {RAM_SIZE - 4, RAM_SIZE - 2} \X {12288, 16384, 20496, 36880}}

\* The instructions that write the flag, with the flag register as an operand:
\* 8XY4, 8XY5, 8XY6, 8XY7, 8XYE, and DXYN with VF as a coordinate.
FlagRoms ==
    {AluRom(xy, a, b, k) :
        <<xy, a, b, k>> \in {<<15, 1>>, <<1, 15>>, <<15, 15>>} \X Bytes \X Bytes
                               \X {4, 5, 6, 7, 14}}
    \cup {<<LD(xy[1], vx), LD(xy[2], vy), LDI(0), DRW(xy[1], xy[2], 5), HALT(4)>> :
             <<xy, vx, vy>> \in {<<15, 1>>, <<1, 15>>} \X {0, 60} \X {0, 3}}

\* FX0A on several registers, followed by further instructions, and FX0A in
\* the last instruction slot of memory.
KeyRoms ==
    {<<LD(X, 170), FX(X, 10), LD(2, 7), HALT(3)>> : X \in {0, 3, 15}}
    \cup {EndRom(RAM_SIZE - 2, FX(0, 10))}

\* FX33 on values with one, two and three decimal digits, with I well inside
\* memory.
BcdRoms ==
    {<<LD(X, v), LDI(768), FX(X, 51), HALT(3)>> :
        <<X, v>> \in {0, 15} \X {0, 7, 99, 123, 200, 255}}

\* VX = v, I = start, then FX1E n times in a row.
AddIRom(X, v, start, n) ==
    [w \in 1..(n + 3) |->
       IF w = 1 THEN LD(X, v)
       ELSE IF w = 2 THEN LDI(start)
       ELSE IF w <= n + 2 THEN FX(X, 30)
       ELSE HALT(n + 2)]

\* The number of FX1E that take I from 0xFFF past 0xFFFF in steps of 255.
AddISteps == 242

\* FX1E until I has crossed 0xFFF and 0xFFFF, also with VF as the operand.
AddIRoms ==
    {AddIRom(X, 255, 4095, AddISteps) : X \in {0, 15}}
    \cup {AddIRom(X, v, 4000, 3) : <<X, v>> \in {1, 15} \X {0, 1, 100}}

\* 7XNN with sums below, at and above 256, also on VF.
IncrRoms ==
    {<<LD(X, a), 28672 + 256 * X + NN, HALT(2)>> :
        <<X, a, NN>> \in {0, 3, 15} \X {5, 200, 255} \X {0, 1, 3, 100}}

\* Jumps, a call and a BNNN to odd addresses; each program then stays on
\* instructions read across the word boundaries.
OddRoms ==
    {<<JP(513), 18, 256>>,
     <<CALL(513), JP(512), 60928>>,
     <<LD(0, 1), 45056 + 514, 18, 768>>,
     <<JP(4091)>>, <<JP(4093)>>}

\* A program on even addresses only: a call and its return, a skip taken and
\* one not taken, a key wait and a BNNN.
EvenRom ==
    <<LD(0, 4), CALL(START_ADDR + 16 - 2), 12288 + 4, HALT(3), FX(1, 10),
      16384 + 4, 45056 + (START_ADDR + 20 - 2 - 4), HALT(7), LDI(0), RET, HALT(10)>>

\* A ROM that fills memory to its end: a call in the last instruction slot,
\* whose subroutine returns at once.
EndCallRom ==
    [w \in 1..((RAM_SIZE - START_ADDR) \div 2) |->
       IF w = 1 THEN JP(RAM_SIZE - 2 - 2)
       ELSE IF w = 3 THEN RET
       ELSE IF START_ADDR + 2 * (w - 1) = RAM_SIZE - 2 THEN CALL(START_ADDR + 2)
       ELSE 0]

\* Programs whose program counter reaches or passes the end of memory: by
\* advancing, skipping, jumping, BNNN and returning; and a key wait at the end.
EndRoms ==
    {EndRom(addr, op) :
        <<addr, op>> \in {RAM_SIZE - 4, RAM_SIZE - 2} \X {12288, 16384, FX(0, 10)}}
    \cup {<<JP(NNN)>> : NNN \in {4090, 4092, 4094}}
    \cup {<<LD(0, 255), 45056 + 4095>>, EndCallRom}

PcRoms == OddRoms \cup {EvenRom} \cup EndRoms

\* Registers stored at I, changed, and loaded back; and instructions whose
\* address operand is at or past the end of memory.
MemRoms ==
    {<<LD(0, SampleBytes[n]), LD(1, SampleBytes[n + 1]), LD(2, 9), LDI(I), FX(X, 85),
       LD(0, 7), LD(1, SampleBytes[n]), FX(X, 101), HALT(8)>> :
        <<n, I, X>> \in (1..NumBytes) \X {768, 4080, 4094} \X {0, 1, 15}}
    \cup {<<LD(0, b), LDI(4095), FX(0, 30), FX(0, w), HALT(4)>> :
             b \in Bytes, w \in {51, 85, 101}}
    \cup {<<LDI(I), DRW(0, 0, 2), HALT(2)>> : I \in {4094, 4095}}

\* A sprite of the font drawn twice at (vx, vy), on an empty screen or over
\* another glyph.
DrawRoms ==
    {<<LD(0, vx), LD(1, vy), LDI(5 * g), DRW(0, 1, 5), LDI(0), DRW(0, 1, n),
       DRW(0, 1, n), HALT(7)>> :
        <<vx, vy, g, n>> \in {0, 3, 24, 60, 250} \X {0, 30, 252} \X {0, 10} \X {1, 5}}

-----------------------------------------------------------------------------
(* The host's calls *)

NoFrame == [addr |-> -1, depth |-> -1]

NoDraw == [op |-> -1, x |-> -1, y |-> -1, i |-> -1, sprite |-> <<>>,
           before |-> <<>>, again |-> FALSE, first |-> <<>>]

\* A call the history keeps nothing of.
Unobserved(m) ==
    [kind |-> "none", op |-> -1, ret |-> "None", pre |-> m,
     was_halted |-> FALSE, frame |-> NoFrame]

Init ==
    /\ program_counter = new.program_counter
    /\ memory = new.memory
    /\ v_regs = new.v_regs
    /\ i_reg = new.i_reg
    /\ stack = new.stack
    /\ stack_pointer = new.stack_pointer
    /\ screen = new.screen
    /\ keys = new.keys
    /\ delay_timer = new.delay_timer
    /\ sound_timer = new.sound_timer
    /\ finished = new.finished
    /\ panic = "none"
    /\ overflow_checks \in BOOLEAN
    /\ phase = "new"
    /\ last = Unobserved(new @@ [panic |-> "none", overflow_checks |-> overflow_checks])
    /\ halted = FALSE
    /\ calls = <<>>
    /\ saved = [valid |-> FALSE]
    /\ drawn = NoDraw

\* The variables take the fields of m.
Becomes(m) ==
    /\ program_counter' = m.program_counter
    /\ memory' = m.memory
    /\ v_regs' = m.v_regs
    /\ i_reg' = m.i_reg
    /\ stack' = m.stack
    /\ stack_pointer' = m.stack_pointer
    /\ screen' = m.screen
    /\ keys' = m.keys
    /\ delay_timer' = m.delay_timer
    /\ sound_timer' = m.sound_timer
    /\ finished' = m.finished
    /\ panic' = m.panic
    /\ UNCHANGED overflow_checks

\* The host loads one of roms into the new machine.
LoadRom(roms) ==
    /\ phase = "new" /\ panic = "none"
    /\ \E words \in roms :
         \E m \in {load_rom(Machine, rom_bytes(words))} :
           /\ Becomes(m)
           /\ last' = Unobserved(m)
    /\ phase' = "loaded"
    /\ UNCHANGED <<halted, calls, saved, drawn>>

SetKey ==
    /\ phase = "loaded" /\ panic = "none"
    /\ \E key \in KeyIds, is_pressed \in BOOLEAN :
         /\ keys[key] # is_pressed
         /\ \E m \in {register_key(Machine, key, is_pressed)} :
              /\ Becomes(m)
              /\ last' = Unobserved(m)
    /\ UNCHANGED <<phase, halted, calls, saved, drawn>>

TickTimers ==
    /\ phase = "loaded" /\ panic = "none"
    /\ \E pre \in {Machine} :
         \E r \in {tick_timers(pre)} :
           /\ Becomes(r.m)
           /\ last' = [kind |-> "timers", op |-> -1, ret |-> r.ret, pre |-> pre,
                       was_halted |-> halted, frame |-> NoFrame]
    /\ UNCHANGED <<phase, halted, calls, saved, drawn>>

\* The bytes rand::random() may return to the instruction about to run.
RandomBytes(op) == IF op >= 0 /\ nib1(op) = 12 THEN Bytes ELSE {0}

\* The sprite bytes a DXYN reads: memory[I + r] for r < N (-1 past the end).
sprite_at(m, n) ==
    [r \in 0..(n - 1) |-> IF m.i_reg + r < RAM_SIZE THEN m.memory[m.i_reg + r] ELSE -1]

Step ==
    /\ phase = "loaded" /\ panic = "none"
    /\ \E pre \in {Machine} :
       \E op \in {fetched(pre)} :
       \E rnd \in RandomBytes(op) :
       \E r \in {tick(pre, rnd)} :
         LET ok == r.m.panic = "none"
             is_call == op >= 0 /\ nib1(op) = 2 /\ ok
             is_ret == op = RET /\ ok
         IN  /\ Becomes(r.m)
             /\ last' = [kind |-> "step", op |-> op, ret |-> r.ret, pre |-> pre,
                         was_halted |-> halted,
                         frame |-> IF is_ret THEN calls[Len(calls)] ELSE NoFrame]
             /\ halted' = IF r.ret = "Finished" THEN TRUE ELSE halted
             /\ calls' = IF is_call
                         THEN Append(calls, [addr |-> program_counter,
                                             depth |-> stack_pointer])
                         ELSE IF is_ret THEN SubSeq(calls, 1, Len(calls) - 1)
                         ELSE calls
             /\ saved' = IF op >= 0 /\ nib1(op) = 15 /\ op % 256 = 85 /\ ok
                         THEN [valid |-> TRUE, i |-> i_reg, x |-> nib2(op), v |-> v_regs]
                         ELSE IF op >= 0 /\ nib1(op) = 15 /\ op % 256 = 51
                         THEN [valid |-> FALSE]
                         ELSE saved
             /\ drawn' = IF op >= 0 /\ nib1(op) = 13
                         THEN [op |-> op, x |-> v_regs[nib2(op)], y |-> v_regs[nib3(op)],
                               i |-> i_reg, sprite |-> sprite_at(pre, nib4(op)),
                               before |-> screen,
                               again |-> /\ last.kind = "step"
                                         /\ last.op = op
                                         /\ drawn.x = v_regs[nib2(op)]
                                         /\ drawn.y = v_regs[nib3(op)]
                                         /\ drawn.i = i_reg
                                         /\ drawn.sprite = sprite_at(pre, nib4(op)),
                               first |-> drawn.before]
                         ELSE drawn
    /\ UNCHANGED phase

ControlSuite == ControlRoms \cup CallRoms

LoadControl == LoadRom(ControlSuite)
LoadAdd == LoadRom(AddRoms)
LoadSub == LoadRom(SubRoms)
LoadPc == LoadRom(PcRoms)
LoadIncr == LoadRom(IncrRoms)
LoadAddI == LoadRom(AddIRoms)
LoadBcd == LoadRom(BcdRoms)
LoadKey == LoadRom(KeyRoms)
LoadFlag == LoadRom(FlagRoms)
LoadSkip == LoadRom(SkipRoms)
LoadFont == LoadRom(FontRoms)
LoadTimer == LoadRom(TimerRoms)
LoadShift == LoadRom(ShiftRoms)
LoadMem == LoadRom(MemRoms)
LoadDraw == LoadRom(DrawRoms)

\* Control flow: jumps, calls, returns, words that are no instruction.
Next == LoadControl \/ SetKey \/ TickTimers \/ Step
Spec == Init /\ [][Next]_vars

\* 8XY4.
NextAdd == LoadAdd \/ SetKey \/ TickTimers \/ Step
SpecAdd == Init /\ [][NextAdd]_vars

\* 8XY5 and 8XY7.
NextSub == LoadSub \/ SetKey \/ TickTimers \/ Step
SpecSub == Init /\ [][NextSub]_vars

\* 8XY6 and 8XYE.
NextShift == LoadShift \/ SetKey \/ TickTimers \/ Step
SpecShift == Init /\ [][NextShift]_vars

\* The timers.
NextTimer == LoadTimer \/ SetKey \/ TickTimers \/ Step
SpecTimer == Init /\ [][NextTimer]_vars

\* Construction and the font.
NextFont == LoadFont \/ SetKey \/ TickTimers \/ Step
SpecFont == Init /\ [][NextFont]_vars

\* The conditional skips.
NextSkip == LoadSkip \/ SetKey \/ TickTimers \/ Step
SpecSkip == Init /\ [][NextSkip]_vars

\* The flag register as an operand.
NextFlag == LoadFlag \/ SetKey \/ TickTimers \/ Step
SpecFlag == Init /\ [][NextFlag]_vars

\* The key wait. The host calls tick in a loop (run_cycle), so a tick that can
\* change the state is eventually taken.
NextKey == LoadKey \/ SetKey \/ TickTimers \/ Step
SpecKey == Init /\ [][NextKey]_vars
SpecKeyLive == SpecKey /\ WF_vars(Step)

\* The decimal digits.
NextBcd == LoadBcd \/ SetKey \/ TickTimers \/ Step
SpecBcd == Init /\ [][NextBcd]_vars

\* The index register.
NextAddI == LoadAddI \/ SetKey \/ TickTimers \/ Step
SpecAddI == Init /\ [][NextAddI]_vars

\* The immediate add.
NextIncr == LoadIncr \/ SetKey \/ TickTimers \/ Step
SpecIncr == Init /\ [][NextIncr]_vars

\* The program counter.
NextPc == LoadPc \/ SetKey \/ TickTimers \/ Step
SpecPc == Init /\ [][NextPc]_vars

\* Memory instructions.
NextMem == LoadMem \/ SetKey \/ TickTimers \/ Step
SpecMem == Init /\ [][NextMem]_vars

\* Drawing.
NextDraw == LoadDraw \/ SetKey \/ TickTimers \/ Step
SpecDraw == Init /\ [][NextDraw]_vars

-----------------------------------------------------------------------------
(* The claims *)

\* The last call of the host was a tick that fetched an opcode.
Stepped == last.kind = "step" /\ last.op >= 0

\* C1: once a tick has returned Finished, every later tick returns Finished
\* and leaves every field of the machine as it was.
C1_FinishedIsAbsorbing ==
    (last.kind = "step" /\ last.was_halted)
        => (last.ret = "Finished" /\ Machine = last.pre)

C1_Witness ==
    /\ last.kind = "step" /\ last.was_halted /\ last.ret = "Finished"
    /\ program_counter > RAM_SIZE - 2

\* C2: a 00EE executed on an empty call stack and a 2NNN executed with 16
\* return addresses pending each make the tick return Finished, without a
\* panic and without indexing the stack outside its 16 entries.
C2_ImbalanceFinishes ==
    (Stepped /\ (\/ last.op = RET /\ last.pre.stack_pointer = 0
                 \/ nib1(last.op) = 2 /\ last.pre.stack_pointer = STACK_SIZE))
        => (panic = "none" /\ last.ret = "Finished" /\ finished)

\* C3: a tick whose opcode matches no instruction pattern changes no
\* register, stack, memory, screen, timer or key, and does not panic.
C3_UnknownOpcodeIsNoOp ==
    (Stepped /\ ~is_known_op(last.op))
        => /\ panic = "none"
           /\ v_regs = last.pre.v_regs /\ i_reg = last.pre.i_reg
           /\ stack = last.pre.stack /\ stack_pointer = last.pre.stack_pointer
           /\ memory = last.pre.memory /\ screen = last.pre.screen
           /\ delay_timer = last.pre.delay_timer
           /\ sound_timer = last.pre.sound_timer /\ keys = last.pre.keys

\* C4: no instruction uses an address outside [0, RAM_SIZE) to index memory,
\* also when I is above 0xFFF or I + X, I + N pass the end of memory.
C4_MemoryIndexInRange == panic # "memory index out of bounds"

\* C5: the 00EE that matches a 2NNN fetched at address A with stack depth d
\* leaves the program counter at A + 2 and the stack pointer at d.
C5_CallReturnRoundTrip ==
    (Stepped /\ last.op = RET /\ panic = "none")
        => /\ program_counter = last.frame.addr + 2
           /\ stack_pointer = last.frame.depth

\* A return from a nested call, back into the caller's caller.
C5_Witness ==
    /\ Stepped /\ last.op = RET /\ panic = "none"
    /\ last.frame.depth = 0 /\ last.pre.stack_pointer = 1
    /\ last.pre.program_counter > last.frame.addr + 4
    /\ program_counter = last.frame.addr + 2

\* C6: the same DXYN executed twice in succession (same I, VX, VY and sprite
\* bytes) leaves the screen as it was before the first of the two.
C6_DrawTwiceRestores ==
    (Stepped /\ nib1(last.op) = 13 /\ drawn.again /\ panic = "none")
        => screen = drawn.first

\* C7: DXYN touches, for sprite row r and column c, the cell of index
\* ((VX + c) mod 64) + 64 * ((VY + r) mod 32), never indexes the screen
\* outside [0, 2048) and never fails on the coordinate arithmetic.
C7_ToroidalDraw ==
    (Stepped /\ nib1(last.op) = 13)
        => /\ panic \notin {"screen index out of bounds", "overflow"}
           /\ \A r \in 0..(nib4(last.op) - 1), c \in 0..7 :
                LET VX == last.pre.v_regs[nib2(last.op)]
                    VY == last.pre.v_regs[nib3(last.op)]
                IN  coordinate_to_index((VX + c) % 256, (VY + r) % 256)
                      = ((VX + c) % SCREEN_WIDTH)
                          + SCREEN_WIDTH * ((VY + r) % SCREEN_HEIGHT)

\* C8: FX65 after FX55 with the same X and the same I gives V0..VX the
\* values they had before the FX55, whatever they were changed to in
\* between; neither instruction changes a register above VX or I.
C8_StoreLoadRoundTrip ==
    /\ (Stepped /\ nib1(last.op) = 15 /\ last.op % 256 = 85 /\ panic = "none")
          => (v_regs = last.pre.v_regs /\ i_reg = last.pre.i_reg)
    /\ (Stepped /\ nib1(last.op) = 15 /\ last.op % 256 = 101 /\ panic = "none"
          /\ saved.valid /\ saved.x = nib2(last.op) /\ saved.i = last.pre.i_reg)
          => /\ i_reg = last.pre.i_reg
             /\ \A r \in 0..(NUM_V_REGS - 1) :
                  v_regs[r] = IF r <= saved.x THEN saved.v[r] ELSE last.pre.v_regs[r]

\* Two registers that were changed after the FX55 are back.
C8_Witness ==
    /\ Stepped /\ nib1(last.op) = 15 /\ last.op % 256 = 101 /\ panic = "none"
    /\ saved.valid /\ saved.x = nib2(last.op) /\ saved.i = last.pre.i_reg
    /\ saved.x >= 1
    /\ last.pre.v_regs[0] # saved.v[0] /\ last.pre.v_regs[1] # saved.v[1]
    /\ v_regs[0] = saved.v[0] /\ v_regs[1] = saved.v[1]

\* C9: after 8XY4, VF = 1 iff the sum of the operands before it exceeds 255
\* (else 0), VX is the sum mod 256 unless X is the flag register, and no
\* other register changed.
C9_AddCarry ==
    (Stepped /\ nib1(last.op) = 8 /\ nib4(last.op) = 4)
        => LET X == nib2(last.op)
               sum == last.pre.v_regs[X] + last.pre.v_regs[nib3(last.op)]
           IN  /\ panic = "none"
               /\ v_regs[15] = (IF sum > 255 THEN 1 ELSE 0)
               /\ X # 15 => v_regs[X] = sum % 256
               /\ \A r \in 0..(NUM_V_REGS - 1) :
                    r \notin {X, 15} => v_regs[r] = last.pre.v_regs[r]

\* A sum that wraps.
C9_Witness ==
    /\ Stepped /\ nib1(last.op) = 8 /\ nib4(last.op) = 4 /\ panic = "none"
    /\ nib2(last.op) # 15
    /\ last.pre.v_regs[nib2(last.op)] + last.pre.v_regs[nib3(last.op)] > 255
    /\ v_regs[15] = 1
    /\ v_regs[nib2(last.op)] < last.pre.v_regs[nib2(last.op)]

\* C10 as stated: 8XY5 sets VF = 1 iff VX >= VY before it (else 0) and stores
\* (VX - VY) mod 256 in VX, for all X; 8XY7 likewise with the operands
\* exchanged; equal operands give VF = 1 and the result 0.
C10_AsStated ==
    (Stepped /\ nib1(last.op) = 8 /\ nib4(last.op) \in {5, 7})
        => LET X == nib2(last.op)
               xval == last.pre.v_regs[X]
               yval == last.pre.v_regs[nib3(last.op)]
               minuend == IF nib4(last.op) = 5 THEN xval ELSE yval
               subtrahend == IF nib4(last.op) = 5 THEN yval ELSE xval
           IN  /\ panic = "none"
               /\ v_regs[15] = (IF minuend >= subtrahend THEN 1 ELSE 0)
               /\ v_regs[X] = (minuend - subtrahend) % 256
               /\ minuend = subtrahend => v_regs[X] = 0

\* C10, amended: 8XY5 sets VF = 1 iff VX >= VY before it (else 0) and, unless
\* X is the flag register, stores (VX - VY) mod 256 in VX; 8XY7 sets VF = 1
\* iff VY >= VX before it and, unless X is the flag register, stores
\* (VY - VX) mod 256 in VX; equal operands give VF = 1 and, unless X is the
\* flag register, the result 0.
C10_SubBorrow ==
    (Stepped /\ nib1(last.op) = 8 /\ nib4(last.op) \in {5, 7})
        => LET X == nib2(last.op)
               xval == last.pre.v_regs[X]
               yval == last.pre.v_regs[nib3(last.op)]
               minuend == IF nib4(last.op) = 5 THEN xval ELSE yval
               subtrahend == IF nib4(last.op) = 5 THEN yval ELSE xval
           IN  /\ panic = "none"
               /\ v_regs[15] = (IF minuend >= subtrahend THEN 1 ELSE 0)
               /\ X # 15 => v_regs[X] = (minuend - subtrahend) % 256
               /\ (X # 15 /\ minuend = subtrahend) => v_regs[X] = 0

\* 8XY5 on equal operands in two registers.
C10_Witness ==
    /\ Stepped /\ nib1(last.op) = 8 /\ nib4(last.op) = 5 /\ panic = "none"
    /\ nib2(last.op) # nib3(last.op) /\ nib2(last.op) # 15
    /\ last.pre.v_regs[nib2(last.op)] = last.pre.v_regs[nib3(last.op)]
    /\ last.pre.v_regs[nib2(last.op)] > 0
    /\ v_regs[15] = 1 /\ v_regs[nib2(last.op)] = 0

\* C11 as stated: 8XY6 leaves VX = v div 2 and VF = v mod 2, and 8XYE leaves
\* VX = (2 * v) mod 256 and VF = bit 7 of v, where v is VX before the
\* instruction, for every X; no register other than VX and VF changes.
C11_AsStated ==
    (Stepped /\ nib1(last.op) = 8 /\ nib4(last.op) \in {6, 14})
        => LET X == nib2(last.op)
               v == last.pre.v_regs[X]
               right == nib4(last.op) = 6
           IN  /\ panic = "none"
               /\ v_regs[15] = (IF right THEN v % 2 ELSE v \div 128)
               /\ v_regs[X] = (IF right THEN v \div 2 ELSE (2 * v) % 256)
               /\ \A r \in 0..(NUM_V_REGS - 1) :
                    r \notin {X, 15} => v_regs[r] = last.pre.v_regs[r]

\* C11, amended: 8XY6 leaves VF = v mod 2 and, unless X is the flag register,
\* VX = v div 2; 8XYE leaves VF = bit 7 of v and, unless X is the flag
\* register, VX = (2 * v) mod 256; v is VX before the instruction, VY is not
\* read, and no register other than VX and VF changes.
C11_Shift ==
    (Stepped /\ nib1(last.op) = 8 /\ nib4(last.op) \in {6, 14})
        => LET X == nib2(last.op)
               v == last.pre.v_regs[X]
               right == nib4(last.op) = 6
           IN  /\ panic = "none"
               /\ v_regs[15] = (IF right THEN v % 2 ELSE v \div 128)
               /\ X # 15 => v_regs[X] = (IF right THEN v \div 2 ELSE (2 * v) % 256)
               /\ \A r \in 0..(NUM_V_REGS - 1) :
                    r \notin {X, 15} => v_regs[r] = last.pre.v_regs[r]

\* A left shift that drops a set bit 7, with another value in VY.
C11_Witness ==
    /\ Stepped /\ nib1(last.op) = 8 /\ nib4(last.op) = 14 /\ panic = "none"
    /\ nib2(last.op) \notin {15, nib3(last.op)}
    /\ last.pre.v_regs[nib2(last.op)] = 255
    /\ last.pre.v_regs[nib3(last.op)] = 3
    /\ v_regs[15] = 1 /\ v_regs[nib2(last.op)] = 254

\* C12: tick_timers leaves delay = max(d - 1, 0) and sound = max(s - 1, 0),
\* where d and s are the counters before the call, each whatever the other
\* is, and changes nothing else in the machine.
C12_SaturatingDecrement ==
    (last.kind = "timers")
        => /\ panic = "none"
           /\ delay_timer = (IF last.pre.delay_timer > 0
                             THEN last.pre.delay_timer - 1 ELSE 0)
           /\ sound_timer = (IF last.pre.sound_timer > 0
                             THEN last.pre.sound_timer - 1 ELSE 0)
           /\ [Machine EXCEPT !.delay_timer = 0, !.sound_timer = 0]
                = [last.pre EXCEPT !.delay_timer = 0, !.sound_timer = 0]

\* C13: tick_timers returns PlaySound iff the sound counter was 1 before the
\* call, and the sound counter is then 0 after it (so that the next
\* tick_timers returns None).
C13_PlaySoundOnLastCount ==
    (last.kind = "timers")
        => /\ (last.ret = "PlaySound") <=> (last.pre.sound_timer = 1)
           /\ last.ret = "PlaySound" => sound_timer = 0

\* C14: a tick that executes an instruction other than FX15 and FX18, or
\* returns before fetching, leaves both timers as they were.
C14_TickKeepsTimers ==
    (last.kind = "step"
       /\ ~(last.op >= 0 /\ nib1(last.op) = 15 /\ last.op % 256 \in {21, 24}))
        => /\ delay_timer = last.pre.delay_timer
           /\ sound_timer = last.pre.sound_timer

\* An instruction executed while both timers are counting.
C14_Witness ==
    /\ Stepped /\ panic = "none" /\ nib1(last.op) = 13
    /\ last.pre.delay_timer = 2 /\ last.pre.sound_timer = 2
    /\ delay_timer = 2 /\ sound_timer = 2

\* C15: the machine as constructed has PC = 0x200, the 80 font bytes in
\* memory[0x050..0x0A0) and 0 in every other byte, all registers, I, the stack
\* pointer and both timers 0, every screen cell and every key false, and is
\* not finished.
C15_InitialState ==
    (phase = "new")
        => /\ program_counter = 512
           /\ memory = [a \in 0..(RAM_SIZE - 1) |->
                          IF a >= 80 /\ a < 160 THEN FONTSET[a - 80 + 1] ELSE 0]
           /\ \A r \in 0..(NUM_V_REGS - 1) : v_regs[r] = 0
           /\ i_reg = 0 /\ stack_pointer = 0
           /\ delay_timer = 0 /\ sound_timer = 0
           /\ \A p \in 0..(SCREEN_WIDTH * SCREEN_HEIGHT - 1) : ~screen[p]
           /\ \A k \in 0..(NUM_KEYS - 1) : ~keys[k]
           /\ ~finished /\ panic = "none"

\* C16: after FX29, I = 0x050 + 5 * (VX mod 16) and memory[I..I+5) holds the
\* five font bytes of the digit VX mod 16, whatever I was before.
C16_FontAddress ==
    (Stepped /\ nib1(last.op) = 15 /\ last.op % 256 = 41)
        => LET digit == last.pre.v_regs[nib2(last.op)] % 16
           IN  /\ panic = "none"
               /\ i_reg = 80 + 5 * digit
               /\ \A k \in 0..4 :
                    i_reg + k < RAM_SIZE /\ memory[i_reg + k] = FONTSET[5 * digit + k + 1]

\* C17: after a tick that executes 1NNN the program counter is NNN, and after
\* one that executes BNNN it is NNN + V0; no 2 is added to the target.
C17_JumpSetsPC ==
    (Stepped /\ nib1(last.op) \in {1, 11})
        => /\ panic = "none"
           /\ program_counter
                = (last.op % 4096)
                    + (IF nib1(last.op) = 11 THEN last.pre.v_regs[0] ELSE 0)

\* C18: 2NNN fetched at address A with d < 16 return addresses pending leaves
\* the program counter at NNN, stack[d] = A + 2, the stack pointer at d + 1
\* and the stack entries below d as they were.
C18_CallPushesNext ==
    (Stepped /\ nib1(last.op) = 2 /\ last.pre.stack_pointer < STACK_SIZE)
        => LET d == last.pre.stack_pointer
           IN  /\ panic = "none"
               /\ program_counter = last.op % 4096
               /\ stack[d] = last.pre.program_counter + 2
               /\ stack_pointer = d + 1
               /\ \A s \in 0..(STACK_SIZE - 1) : s < d => stack[s] = last.pre.stack[s]

\* C19: a 3XNN (VX = NN), 4XNN (VX # NN), 5XY0 (VX = VY) or 9XY0 (VX # VY)
\* fetched at address A leaves the program counter at A + 4 iff its condition
\* holds and at A + 2 otherwise, changes nothing else in the machine, and
\* the tick returns Finished when that carries the program counter past 4094.
C19_ConditionalSkip ==
    (Stepped /\ (nib1(last.op) \in {3, 4} \/ (nib1(last.op) \in {5, 9} /\ nib4(last.op) = 0)))
        => LET vx == last.pre.v_regs[nib2(last.op)]
               other == IF nib1(last.op) \in {3, 4} THEN last.op % 256
                        ELSE last.pre.v_regs[nib3(last.op)]
               holds == IF nib1(last.op) \in {3, 5} THEN vx = other ELSE vx # other
           IN  /\ panic = "none"
               /\ program_counter
                    = last.pre.program_counter + (IF holds THEN 4 ELSE 2)
               /\ program_counter > RAM_SIZE - 2 => last.ret = "Finished"
               /\ [Machine EXCEPT !.program_counter = 0, !.finished = FALSE]
                    = [last.pre EXCEPT !.program_counter = 0, !.finished = FALSE]

\* A skip taken at the last but one instruction address: the tick returns Finished.
C19_Witness ==
    /\ Stepped /\ nib1(last.op) = 3 /\ panic = "none"
    /\ last.pre.program_counter = RAM_SIZE - 4
    /\ program_counter = RAM_SIZE /\ last.ret = "Finished"

\* C20: after DXYN every cell of index ((VX + c) mod 64) + 64 * ((VY + r) mod 32),
\* for a row r < N and a bit c < 8 (most significant first) of memory[I + r],
\* holds its old value XOR that bit, and every other cell is as it was.
C20_XorBlit ==
    (Stepped /\ nib1(last.op) = 13)
        => LET VX == last.pre.v_regs[nib2(last.op)]
               VY == last.pre.v_regs[nib3(last.op)]
               lit == {((VX + c) % SCREEN_WIDTH) + SCREEN_WIDTH * ((VY + r) % SCREEN_HEIGHT) :
                         <<r, c>> \in {rc \in (0..(nib4(last.op) - 1)) \X (0..7) :
                                         /\ last.pre.i_reg + rc[1] < RAM_SIZE
                                         /\ Bit(last.pre.memory[last.pre.i_reg + rc[1]],
                                                7 - rc[2]) = 1}}
           IN  /\ panic = "none"
               /\ \A p \in 0..(SCREEN_WIDTH * SCREEN_HEIGHT - 1) :
                    screen[p] = (last.pre.screen[p] # (p \in lit))

\* C21: after DXYN, VF = 1 iff some sprite bit equal to 1 landed on a cell
\* that was on, and VF = 0 otherwise: a bit of 0 is never a collision, and a
\* draw on the empty screen leaves VF = 0.  (The cell of a bit is the one the
\* draw touches for it; the cells of one sprite are distinct.)
C21_CollisionFlag ==
    (Stepped /\ nib1(last.op) = 13 /\ panic = "none")
        => LET VX == last.pre.v_regs[nib2(last.op)]
               VY == last.pre.v_regs[nib3(last.op)]
               hit == \E r \in 0..(nib4(last.op) - 1), c \in 0..7 :
                        /\ Bit(last.pre.memory[last.pre.i_reg + r], 7 - c) = 1
                        /\ last.pre.screen[coordinate_to_index((VX + c) % 256,
                                                               (VY + r) % 256)]
           IN  v_regs[15] = (IF hit THEN 1 ELSE 0)

\* C22: 8XY4, 8XY5, 8XY6, 8XY7 and 8XYE leave in VF the flag computed from
\* the values VX and VY held before the instruction, also when X or Y is the
\* flag register, and in VX (X not the flag register) the result computed from
\* them; DXYN, also with the flag register as a coordinate, leaves 0 or 1 in VF.
C22_FlagWrittenLast ==
    (Stepped /\ (nib1(last.op) = 13
                   \/ (nib1(last.op) = 8 /\ nib4(last.op) \in {4, 5, 6, 7, 14})))
        => LET X == nib2(last.op)
               k == nib4(last.op)
               xval == last.pre.v_regs[X]
               yval == last.pre.v_regs[nib3(last.op)]
               flag == CASE k = 4 -> IF xval + yval > 255 THEN 1 ELSE 0
                         [] k = 5 -> IF xval >= yval THEN 1 ELSE 0
                         [] k = 7 -> IF yval >= xval THEN 1 ELSE 0
                         [] k = 6 -> xval % 2
                         [] OTHER -> xval \div 128
               result == CASE k = 4 -> (xval + yval) % 256
                           [] k = 5 -> (xval - yval) % 256
                           [] k = 7 -> (yval - xval) % 256
                           [] k = 6 -> xval \div 2
                           [] OTHER -> (2 * xval) % 256
           IN  /\ panic = "none"
               /\ nib1(last.op) = 13 => v_regs[15] \in {0, 1}
               /\ nib1(last.op) = 8 => /\ v_regs[15] = flag
                                       /\ X # 15 => v_regs[X] = result

\* The machine is about to fetch FX0A.
Waiting ==
    /\ phase = "loaded" /\ panic = "none"
    /\ fetched(Machine) >= 0
    /\ nib1(fetched(Machine)) = 15 /\ fetched(Machine) % 256 = 10

AnyKey == \E id \in 0..(NUM_KEYS - 1) : keys[id]

\* One tick on FX0A at address A: with no key pressed it returns Running and
\* leaves every field as it was, the program counter at A; with a key pressed
\* VX is the lowest pressed index, the program counter is A + 2 and nothing
\* else changes.
C23_WaitStep ==
    (Stepped /\ nib1(last.op) = 15 /\ last.op % 256 = 10)
        => LET A == last.pre.program_counter
               X == nib2(last.op)
               pressed == {id \in 0..(NUM_KEYS - 1) : last.pre.keys[id]}
           IN  /\ panic = "none"
               /\ pressed = {} => /\ last.ret = "Running"
                                  /\ Machine = last.pre
                                  /\ program_counter = A
               /\ pressed # {} =>
                     /\ v_regs[X] \in pressed
                     /\ \A id \in pressed : v_regs[X] <= id
                     /\ program_counter = A + 2
                     /\ \A r \in 0..15 : r # X => v_regs[r] = last.pre.v_regs[r]
                     /\ <<memory, i_reg, stack, stack_pointer, screen, keys,
                          delay_timer, sound_timer>>
                        = <<last.pre.memory, last.pre.i_reg, last.pre.stack,
                            last.pre.stack_pointer, last.pre.screen, last.pre.keys,
                            last.pre.delay_timer, last.pre.sound_timer>>

\* C23: FX0A busy-wait. While no key is pressed every tick on FX0A returns
\* Running and changes nothing, the program counter staying at the
\* instruction; the tick that finds a key pressed puts the lowest pressed index
\* in VX and advances the program counter by 2. Hence when a key is eventually
\* pressed and held, the machine does not wait forever.
C23_BusyWait ==
    /\ []C23_WaitStep
    /\ (<>[]AnyKey) => ([]<>(~Waiting))

\* A tick on FX0A found only key 5 pressed and completed the wait, after an
\* earlier tick on the same instruction found none.
C23_Witness ==
    /\ Stepped /\ nib1(last.op) = 15 /\ last.op % 256 = 10
    /\ last.pre.keys[5] /\ ~last.pre.keys[1]
    /\ v_regs[nib2(last.op)] = 5
    /\ program_counter = last.pre.program_counter + 2

\* C24: FX33 with I + 2 inside memory writes the hundreds, tens and ones digit
\* of VX to memory[I], memory[I + 1] and memory[I + 2], and changes no other
\* memory cell, no register and not I.
C24_DecimalDigits ==
    (Stepped /\ nib1(last.op) = 15 /\ last.op % 256 = 51
             /\ last.pre.i_reg + 2 < RAM_SIZE)
        => LET vx == last.pre.v_regs[nib2(last.op)]
               I == last.pre.i_reg
           IN  /\ panic = "none"
               /\ memory = [last.pre.memory EXCEPT ![I] = vx \div 100,
                                                    ![I + 1] = (vx \div 10) % 10,
                                                    ![I + 2] = vx % 10]
               /\ v_regs = last.pre.v_regs
               /\ i_reg = last.pre.i_reg

\* C25: FX1E leaves I = (I + VX) mod 65536 whatever I was, and changes no V
\* register, VF included, also when the sum crosses 0xFFF or 0xFFFF.
C25_AddToIndex ==
    (Stepped /\ nib1(last.op) = 15 /\ last.op % 256 = 30)
        => /\ panic = "none"
           /\ i_reg = (last.pre.i_reg + last.pre.v_regs[nib2(last.op)]) % 65536
           /\ v_regs = last.pre.v_regs

\* FX1E took I across 0xFFFF.
C25_Witness ==
    /\ Stepped /\ nib1(last.op) = 15 /\ last.op % 256 = 30
    /\ last.pre.i_reg + last.pre.v_regs[nib2(last.op)] > 65535
    /\ i_reg < 255

\* C26: 7XNN never fails and leaves VX = (VX + NN) mod 256, also when the sum
\* exceeds 255; every other register, VF included, keeps its value.
C26_AddImmediate ==
    (Stepped /\ nib1(last.op) = 7)
        => /\ panic = "none"
           /\ v_regs = [last.pre.v_regs EXCEPT
                          ![nib2(last.op)] =
                              (last.pre.v_regs[nib2(last.op)] + (last.op % 256)) % 256]

\* C27 as stated: the program counter is even in every reachable state.
C27_AsStated == program_counter % 2 = 0

\* The last tick executed 1NNN or 2NNN with an odd NNN, or BNNN with an odd
\* NNN + V0.
OddJump ==
    /\ Stepped
    /\ \/ nib1(last.op) \in {1, 2} /\ last.op % 2 = 1
       \/ nib1(last.op) = 11 /\ ((last.op % 4096) + last.pre.v_regs[0]) % 2 = 1

\* The program counter and every return address on the stack are even.
Aligned ==
    /\ program_counter % 2 = 0
    /\ \A k \in DOMAIN stack : stack[k] % 2 = 0

\* C27: the program counter is even after construction, and every call of
\* the host that is not a tick executing 1NNN or 2NNN with an odd NNN or BNNN
\* with an odd NNN + V0 keeps it even (with the return addresses on the
\* stack): the program counter is even in every state reached before the first
\* such jump.
C27_Alignment ==
    /\ Aligned
    /\ [][(Aligned /\ ~OddJump') => Aligned']_vars

\* The program on even addresses has called, returned, skipped, waited and
\* taken its BNNN, and the program counter is even.
C27_Witness ==
    /\ Stepped /\ last.op = 45056 + (START_ADDR + 20 - 2 - 4)
    /\ last.pre.v_regs[0] = 4
    /\ program_counter = START_ADDR + 20
    /\ Aligned

\* C28: a tick returns Running only if it leaves the program counter at most
\* RAM_SIZE - 2 and returns Finished whenever it has moved the program counter
\* past that (advancing, skipping, jumping, by BNNN or returning); every fetch
\* reads memory[PC] and memory[PC + 1] inside memory; the rewind of FX0A never
\* takes the program counter below 0.
C28_PcBound ==
    /\ program_counter < USIZE_WRAPPED
    /\ last.kind = "step" =>
          /\ last.op >= 0 => last.pre.program_counter + 1 < RAM_SIZE
          /\ (Stepped /\ nib1(last.op) = 15 /\ last.op % 256 = 10) => panic = "none"
          /\ panic = "none" =>
                /\ last.ret = "Running" => program_counter <= RAM_SIZE - 2
                /\ program_counter > RAM_SIZE - 2 => last.ret = "Finished"

\* A return in the subroutine called from the last instruction slot took the
\* program counter past the end of memory, and the tick returned Finished.
C28_Witness ==
    /\ Stepped /\ last.op = RET /\ panic = "none"
    /\ program_counter = RAM_SIZE
    /\ last.ret = "Finished"

\* C29: while tick_timers is called and no FX15 or FX18 executes, every call
\* takes each counter that is not 0 at least one step down and leaves a counter
\* at 0 there, so that from d and s both are 0 after max(d, s) calls and stay
\* 0; and of two calls in a row at most one returns PlaySound.
C29_CountDown ==
    [][(last'.kind = "timers")
         => /\ last'.pre.delay_timer > 0 => delay_timer' < last'.pre.delay_timer
            /\ last'.pre.sound_timer > 0 => sound_timer' < last'.pre.sound_timer
            /\ last'.pre.delay_timer = 0 => delay_timer' = 0
            /\ last'.pre.sound_timer = 0 => sound_timer' = 0
            /\ ~(last.kind = "timers" /\ last.ret = "PlaySound"
                    /\ last'.ret = "PlaySound")]_vars

=============================================================================
